---------------------------- MODULE Spec2Model ----------------------------
(***************************************************************************)
(* Multilevel-atom susceptibility of Meep (src/src/multilevel-atom.cpp):   *)
(* the flat per-field-state buffer (layout, initialisation, clone,         *)
(* release) and the per-timestep update of populations, coherences and     *)
(* polarizations, for the linear class (multilevel_susceptibility) and the *)
(* extended class (multilevel_nonlinear_susceptibility).                   *)
(*                                                                         *)
(* realnum values are modelled in exact arithmetic over the field Z_5      *)
(* (rounding is not modelled); Indet stands for an indeterminate value     *)
(* (a read through a dangling pointer, an uninitialised stack slot).       *)
(* Sizes are counted in realnum elements.  A buffer's addressable cells    *)
(* are 0 .. Extent-1; the cells at or beyond its allocated capacity `sz`   *)
(* are memory the allocation does not own.                                 *)
(***************************************************************************)
EXTENDS Integers, Sequences, FiniteSets, TLC

VARIABLES cfg, heap, mem, tabAlive, W, W_prev, f_minus_p, upd, ret, hist

vars == <<cfg, heap, mem, tabAlive, W, W_prev, f_minus_p, upd, ret, hist>>

(***************************************************************************)
(* Bounds of the model.                                                    *)
(***************************************************************************)
MaxNtot == 3
MaxCalls == 1

(***************************************************************************)
(* realnum arithmetic.                                                     *)
(***************************************************************************)
Val == {0, 1, 2, 3, 4}
Modulus == Cardinality(Val)
Indet == 0 - 1

Norm(x) == x % Modulus
Add(a, b) == IF a = Indet \/ b = Indet THEN Indet ELSE Norm(a + b)
Sub(a, b) == IF a = Indet \/ b = Indet THEN Indet ELSE Norm(a - b)
Mul(a, b) == IF a = Indet \/ b = Indet THEN Indet ELSE Norm(a * b)
Neg(a) == Sub(0, a)
\* 1/a (a # 0): a^(Modulus-2)
Inv(a) == IF a = Indet THEN Indet ELSE Norm(a * a * a)
Div(a, b) == Mul(a, Inv(b))


(***************************************************************************)
(* Field components, parts and directions.                                 *)
(***************************************************************************)
\* FOR_COMPONENTS(c): the electric and magnetic components, in enum order
Components == <<"Ex", "Ey", "Ez", "Hx", "Hy", "Hz">>
CompSet == {Components[k] : k \in 1..Len(Components)}
\* DOCMP2: cmp = 0 (real part), 1 (imaginary part)
Parts == {0, 1}
\* FOR_COMPONENTS(c) DOCMP2: the (component, part) pairs in loop order
PairOrder ==
  [k \in 1..(2 * Len(Components)) |-> <<Components[((k - 1) \div 2) + 1], (k - 1) % 2>>]
Pairs == CompSet \X Parts
\* the cdot[] filler: not a field component
Dielectric == "Dielectric"

\* component_direction(c): X = 0, Y = 1, Z = 2
component_direction(c) ==
  CASE c \in {"Ex", "Hx"} -> 0
    [] c \in {"Ey", "Hy"} -> 1
    [] OTHER -> 2
\* cycle_direction(gv.dim, d, shift) for a cartesian grid
cycle_direction(d, shift) == (d + shift) % 3
is_electric(c) == c \in {"Ex", "Ey", "Ez"}
\* direction_component(c, d): the component of c's field type along d
direction_component(c, d) ==
  IF is_electric(c) THEN <<"Ex", "Ey", "Ez">>[d + 1] ELSE <<"Hx", "Hy", "Hz">>[d + 1]
\* FOR_FT_COMPONENTS(ft, ec)
FieldTypes == {"E_stuff", "H_stuff"}
ft_components(ft) == IF ft = "E_stuff" THEN {"Ex", "Ey", "Ez"} ELSE {"Hx", "Hy", "Hz"}
\* field_type_component(ft2, ec) with ft2 = D_stuff for E_stuff, B_stuff otherwise
field_type_component(ft, ec) ==
  IF ft = "E_stuff"
    THEN <<"Dx", "Dy", "Dz">>[component_direction(ec) + 1]
    ELSE <<"Bx", "By", "Bz">>[component_direction(ec) + 1]
FluxComps == {"Dx", "Dy", "Dz", "Bx", "By", "Bz"}

(***************************************************************************)
(* The grid: one chunk of a one-dimensional Yee grid along Z with          *)
(* ntot points per array.  Components whose Yee shift has no Z part sit    *)
(* on the integer points; the others, and the centered grid, sit on the    *)
(* half-integer points.  The last centered point and the first integer     *)
(* point of the chunk are not owned by it.                                 *)
(***************************************************************************)
\* iyee_shift(c).in_direction(Z)
yee_shifted(c) == c \in {"Ez", "Hx", "Hy"}
\* gv.yee2cent_offsets(c, o1, o2)
yee2cent_offsets(c) == IF yee_shifted(c) THEN <<0, 0>> ELSE <<1, 0>>
\* gv.cent2yee_offsets(c, o1, o2)
cent2yee_offsets(c) == <<-(yee2cent_offsets(c)[1]), -(yee2cent_offsets(c)[2])>>
\* LOOP_OVER_VOL_OWNED(gv, Centered, i)
OwnedCentered(ntot) == 0..(ntot - 2)
\* LOOP_OVER_VOL_OWNED(gv, c, i)
Owned(c, ntot) == IF yee_shifted(c) THEN 0..(ntot - 2) ELSE 1..(ntot - 1)

(***************************************************************************)
(* Pointers and the buffer header.                                         *)
(***************************************************************************)
BufIds == {1, 2}
NullPtr == [buf |-> 0, off |-> 0]
Ptr(b, o) == [buf |-> b, off |-> o]
PtrAdd(p, n) == [buf |-> p.buf, off |-> p.off + n]
\* a realnumP[...] table: the buffer whose call allocated it, and its entries
NullTab == [owner |-> 0, ptrs |-> <<>>]
NullArr == <<>>

\* the header of multilevel_data / multilevel_extended_data after memset(d, 0, sz)
ZeroHeader(sz) ==
  [sz_data |-> sz, ntot |-> 0, GammaInv |-> NullPtr,
   P |-> [p \in Pairs |-> NullTab], P_prev |-> [p \in Pairs |-> NullTab],
   V |-> [cmp \in Parts |-> NullTab], V_prev |-> [cmp \in Parts |-> NullTab],
   N |-> NullPtr, Ntmp |-> NullPtr]

\* sizeof(multilevel_extended_data) - sizeof(multilevel_data), in realnum
\* elements: the four table pointers V[2] and V_prev[2]
ExtraHeaderElems == 4

(***************************************************************************)
(* Small dense matrices, row-major in a flat array M[i * n + j].           *)
(***************************************************************************)
Max2(a, b) == IF a >= b THEN a ELSE b
RemoveAt(seq, j) == [k \in 1..(Len(seq) - 1) |-> IF k < j THEN seq[k] ELSE seq[k + 1]]
Range0(n) == [k \in 1..n |-> k - 1]
SignOf(k) == IF k % 2 = 0 THEN 1 ELSE Modulus - 1

RECURSIVE Det(_, _, _, _)
RECURSIVE DetRow(_, _, _, _, _)
\* determinant of the minor of M (n x n) on the given rows and columns
Det(M, n, rows, cols) ==
  IF Len(rows) = 0 THEN 1 ELSE DetRow(M, n, rows, cols, 1)
DetRow(M, n, rows, cols, j) ==
  IF j > Len(cols) THEN 0
  ELSE Add(Mul(Mul(SignOf(j + 1), M[rows[1] * n + cols[j]]),
               Det(M, n, Tail(rows), RemoveAt(cols, j))),
           DetRow(M, n, rows, cols, j + 1))

\* invert(S, p): DGETRF + DGETRI; ok = FALSE when S is singular
invert(S, p) ==
  LET det == Det(S, p, Range0(p), Range0(p))
  IN  IF det = 0 THEN [ok |-> FALSE, S |-> S]
      ELSE [ok |-> TRUE,
            S |-> [k \in 0..(p * p - 1) |->
                     LET i == k \div p
                         j == k % p
                     IN  Div(Mul(SignOf(i + j),
                                 Det(S, p, RemoveAt(Range0(p), j + 1),
                                     RemoveAt(Range0(p), i + 1))),
                             det)]]

(***************************************************************************)
(* Memory.  mem[b][o] is cell o of buffer b's data[] array.                *)
(***************************************************************************)
\* *(p + k) read from memory m
Read(m, p, k) ==
  IF p.buf \in BufIds /\ heap[p.buf].state = "live" /\ (p.off + k) \in DOMAIN m[p.buf]
    THEN m[p.buf][p.off + k]
    ELSE Indet
\* *(p + k) = v
Write(m, p, k, v) ==
  IF p.buf \in BufIds /\ (p.off + k) \in DOMAIN m[p.buf]
    THEN [m EXCEPT ![p.buf][p.off + k] = v]
    ELSE m
\* for (k = 0; k < n; ++k) p[k] = vals[k]
RECURSIVE WriteAll(_, _, _, _, _)
WriteAll(m, p, vals, k, n) ==
  IF k >= n THEN m ELSE WriteAll(Write(m, p, k, vals[k]), p, vals, k + 1, n)

(***************************************************************************)
(* Layout of the data block.                                               *)
(***************************************************************************)
\* needs_P(c, cmp, W): whether polarization storage is needed for the pair
needs_P(p) == p \in cfg.needsP

\* multilevel_susceptibility::new_internal_data: the size computed, as the
\* number of data[] elements the allocation holds
NewSizeLinear ==
  LET num == 2 * cfg.ntot * Cardinality({p \in Pairs : needs_P(p)})
  IN  cfg.L * cfg.L + cfg.L + cfg.ntot * cfg.L + num * cfg.T

\* multilevel_nonlinear_susceptibility::new_internal_data: the header is counted
\* as sizeof(multilevel_data) although the buffer is a multilevel_extended_data,
\* so ExtraHeaderElems of the elements computed lie in the header
NewSizeExtended ==
  LET ntot == cfg.ntot
      npol == ntot * Cardinality({p \in Pairs : needs_P(p)})
      P_size == 2 * npol * cfg.T
      V_size == 2 * ntot * cfg.C
      N_size == (ntot + 1) * cfg.L
      G_size == cfg.L * cfg.L
  IN  G_size + N_size + P_size + V_size - ExtraHeaderElems

NewSize == IF cfg.variant = "linear" THEN NewSizeLinear ELSE NewSizeExtended

\* the P / P_prev slicing loop of init_internal_data and copy_internal_data:
\* FOR_COMPONENTS(c) DOCMP2, for the pairs satisfying has, starting at pair k
\* with the running pointers P = p and P_prev = pp
RECURSIVE SliceP(_, _, _, _, _, _)
SliceP(b, has, ntot, k, p, acc) ==
  IF k > Len(PairOrder) THEN [P |-> acc.P, P_prev |-> acc.P_prev, endP |-> p]
  ELSE IF PairOrder[k] \in has
    THEN SliceP(b, has, ntot, k + 1, p + 2 * ntot * cfg.T,
                [P |-> [acc.P EXCEPT ![PairOrder[k]] =
                          [owner |-> b,
                           ptrs |-> [t \in 1..cfg.T |-> Ptr(b, p + 2 * ntot * (t - 1))]]],
                 P_prev |-> [acc.P_prev EXCEPT ![PairOrder[k]] =
                          [owner |-> b,
                           ptrs |-> [t \in 1..cfg.T |->
                                       Ptr(b, p + ntot + 2 * ntot * (t - 1))]]]])
    ELSE SliceP(b, has, ntot, k + 1, p, acc)

\* the V / V_prev slicing loop (extended): DOCMP2, for cr < C, starting at v
SliceV(b, ntot, v) ==
  [V |-> [cmp \in Parts |->
            [owner |-> b,
             ptrs |-> [cr \in 1..cfg.C |-> Ptr(b, v + 2 * ntot * (cmp * cfg.C + cr - 1))]]],
   V_prev |-> [cmp \in Parts |->
            [owner |-> b,
             ptrs |-> [cr \in 1..cfg.C |->
                         Ptr(b, v + ntot + 2 * ntot * (cmp * cfg.C + cr - 1))]]]]

\* init_internal_data with "d->N = P" for "d->N = P + L": N starts where Ntmp does
InitHeaderLinearNoScratch(b, sz) ==
  LET ntot == cfg.ntot
      s == SliceP(b, {p \in Pairs : needs_P(p)}, ntot, 1, cfg.L * cfg.L,
                  [P |-> [p \in Pairs |-> NullTab], P_prev |-> [p \in Pairs |-> NullTab]])
  IN  [ZeroHeader(sz) EXCEPT !.ntot = ntot, !.GammaInv = Ptr(b, 0),
         !.P = s.P, !.P_prev = s.P_prev,
         !.Ntmp = Ptr(b, s.endP), !.N = Ptr(b, s.endP)]

\* the pointers init_internal_data derives for buffer b (linear)
InitHeaderLinear(b, sz) ==
  LET ntot == cfg.ntot
      s == SliceP(b, {p \in Pairs : needs_P(p)}, ntot, 1, cfg.L * cfg.L,
                  [P |-> [p \in Pairs |-> NullTab], P_prev |-> [p \in Pairs |-> NullTab]])
  IN  [ZeroHeader(sz) EXCEPT !.ntot = ntot, !.GammaInv = Ptr(b, 0),
         !.P = s.P, !.P_prev = s.P_prev,
         !.Ntmp = Ptr(b, s.endP), !.N = Ptr(b, s.endP + cfg.L)]

\* the pointers init_internal_data derives for buffer b (extended)
InitHeaderExtended(b, sz) ==
  LET ntot == cfg.ntot
      G_size == cfg.L * cfg.L
      has == {p \in Pairs : needs_P(p)}
      s == SliceP(b, has, ntot, 1, G_size,
                  [P |-> [p \in Pairs |-> NullTab], P_prev |-> [p \in Pairs |-> NullTab]])
      P_size == 2 * ntot * cfg.T * Cardinality(has)
      N_size == cfg.L * (ntot + 1)
      v == SliceV(b, ntot, G_size + P_size + N_size)
  IN  [ZeroHeader(sz) EXCEPT !.ntot = ntot, !.GammaInv = Ptr(b, 0),
         !.P = s.P, !.P_prev = s.P_prev,
         !.Ntmp = Ptr(b, G_size + P_size), !.N = Ptr(b, G_size + P_size + cfg.L),
         !.V = v.V, !.V_prev = v.V_prev]

InitHeader(b, sz) ==
  IF cfg.variant = "linear" THEN InitHeaderLinear(b, sz) ELSE InitHeaderExtended(b, sz)

\* one past the last data[] element any slice of the layout reaches
LayoutEnd ==
  LET k == Cardinality({p \in Pairs : needs_P(p)})
      base == cfg.L * cfg.L + 2 * cfg.ntot * cfg.T * k + (cfg.ntot + 1) * cfg.L
  IN  IF cfg.variant = "linear" THEN base ELSE base + 2 * (2 * cfg.ntot * cfg.C)
\* the cells of a buffer the model keeps: the allocation and what the layout
\* reaches beyond it
Extent == Max2(NewSize, LayoutEnd)

(***************************************************************************)
(* Buffer lifecycle.                                                       *)
(***************************************************************************)
Idle == [pc |-> "idle"]
\* the bookkeeping of the checks: an operation other than the one a record
\* follows ends the record
SubNone == [n |-> 0, b |-> 0, ft |-> "", f0 |-> <<>>, mem0 |-> <<>>, heap0 |-> <<>>]
Touch(h) == [h EXCEPT !.sub = SubNone, !.ended = {}, !.swept = FALSE]
\* abort(msg): the process ends
Aborted(msg, t) == [pc |-> "aborted", msg |-> msg, t |-> t]

\* what malloc'ed memory beyond the requested size may hold
GarbageVals == {0, 1}

TabIds(b, hdr) ==
  {<<hdr.P[p].owner, "P", p>> : p \in {q \in Pairs : hdr.P[q] # NullTab}}
    \cup {<<hdr.P_prev[p].owner, "P_prev", p>> : p \in {q \in Pairs : hdr.P_prev[q] # NullTab}}
    \cup {<<hdr.V[c].owner, "V", c>> : c \in {q \in Parts : hdr.V[q] # NullTab}}
    \cup {<<hdr.V_prev[c].owner, "V_prev", c>> : c \in {q \in Parts : hdr.V_prev[q] # NullTab}}

\* buffer b is live and init_internal_data has laid it out (or it is the clone
\* of such a buffer)
Initialised(b) ==
  heap[b].state = "live" /\ heap[b].d.ntot = cfg.ntot /\ heap[b].d.N # NullPtr

\* new_internal_data(W, gv): malloc(sz), memset(d, 0, sz), d->sz_data = sz
NewInternalData(b) ==
  /\ upd.pc = "idle"
  /\ heap[b].state = "free"
  /\ \E g \in GarbageVals :
       mem' = [mem EXCEPT ![b] = [o \in 0..(Extent - 1) |-> IF o < NewSize THEN 0 ELSE g]]
  /\ heap' = [heap EXCEPT ![b] = [state |-> "live", d |-> ZeroHeader(NewSize)]]
  /\ hist' = Touch(hist)
  /\ UNCHANGED <<cfg, tabAlive, W, W_prev, f_minus_p, upd, ret>>

\* I + Gamma * dt / 2, row-major
RelaxMatrix(dt) ==
  [k \in 0..(cfg.L * cfg.L - 1) |->
     Add(IF k \div cfg.L = k % cfg.L THEN 1 ELSE 0, Div(Mul(cfg.Gamma[k], dt), 2))]

\* memset(d, 0, sz_data): the cells of the allocation
Memset0(m, b, sz) ==
  [m EXCEPT ![b] = [o \in DOMAIN m[b] |-> IF o < sz THEN 0 ELSE m[b][o]]]

\* init_internal_data(W, dt, gv, data), both classes
InitInternalDataAt(b, dt) ==
  /\ upd.pc = "idle"
  /\ heap[b].state = "live"
  /\ LET sz == heap[b].d.sz_data
         hdr == InitHeader(b, sz)
         inv == invert(RelaxMatrix(dt), cfg.L)
         z == Memset0(mem, b, sz)
         g == WriteAll(z, hdr.GammaInv, inv.S, 0, cfg.L * cfg.L)
         n == WriteAll(g, hdr.N, [k \in 0..(cfg.ntot * cfg.L - 1) |-> cfg.N0[k % cfg.L]],
                       0, cfg.ntot * cfg.L)
     IN  IF ~inv.ok
           THEN /\ upd' = Aborted("I + Gamma*dt/2 matrix singular", -1)
                /\ mem' = g
                /\ heap' = [heap EXCEPT ![b].d =
                              [ZeroHeader(sz) EXCEPT !.ntot = cfg.ntot,
                                                     !.GammaInv = Ptr(b, 0)]]
                /\ hist' = [Touch(hist) EXCEPT !.inited = @ \ {b}]
                /\ UNCHANGED tabAlive
           ELSE /\ mem' = n
                /\ heap' = [heap EXCEPT ![b].d = hdr]
                /\ tabAlive' = tabAlive \cup TabIds(b, hdr)
                /\ hist' = [Touch(hist) EXCEPT !.pristine = @ \ {b}, !.inited = @ \cup {b}]
                /\ upd' = upd
  /\ UNCHANGED <<cfg, W, W_prev, f_minus_p, ret>>

\* init_internal_data called with the timestep of the simulation
InitInternalData(b) == InitInternalDataAt(b, cfg.dt)

\* the header copy_internal_data leaves in the clone bnew of a buffer with
\* header d: memcpy(dnew, d, d->sz_data), then the pointers re-derived
CopyHeaderLinear(d, bnew) ==
  LET ntot == d.ntot
      s == SliceP(bnew, {p \in Pairs : d.P[p] # NullTab}, ntot, 1, cfg.L * cfg.L,
                  [P |-> d.P, P_prev |-> d.P_prev])
  IN  [d EXCEPT !.GammaInv = Ptr(bnew, 0), !.P = s.P, !.P_prev = s.P_prev,
                !.Ntmp = Ptr(bnew, s.endP), !.N = Ptr(bnew, s.endP + cfg.L)]

CopyHeaderExtended(d, bnew) ==
  LET ntot == d.ntot
      G_size == cfg.L * cfg.L
      has == {p \in Pairs : d.P[p] # NullTab}
      s == SliceP(bnew, has, ntot, 1, G_size, [P |-> d.P, P_prev |-> d.P_prev])
      P_size == 2 * ntot * cfg.T * Cardinality(has)
      N_size == cfg.L * (ntot + 1)
      v == SliceV(bnew, ntot, G_size + P_size + N_size)
  IN  [d EXCEPT !.GammaInv = Ptr(bnew, 0), !.P = s.P, !.P_prev = s.P_prev,
                !.Ntmp = Ptr(bnew, G_size + P_size),
                !.N = Ptr(bnew, G_size + P_size + cfg.L),
                !.V = v.V, !.V_prev = v.V_prev]

CopyHeader(d, bnew) ==
  IF cfg.variant = "linear" THEN CopyHeaderLinear(d, bnew) ELSE CopyHeaderExtended(d, bnew)

\* malloc(d->sz_data); memcpy(dnew, d, d->sz_data): the clone's cells
CopyCells(m, b, bnew, g) ==
  [m EXCEPT ![bnew] = [o \in DOMAIN m[b] |-> IF o < heap[b].d.sz_data THEN m[b][o] ELSE g]]

\* the arrays a buffer holds, read through its own pointers
TabEntry(tab, kind, key, t) ==
  IF <<tab.owner, kind, key>> \in tabAlive /\ t \in DOMAIN tab.ptrs THEN tab.ptrs[t] ELSE NullPtr
Arrays(m, d) ==
  [N |-> [k \in 0..(d.ntot * cfg.L - 1) |-> Read(m, d.N, k)],
   P |-> [p \in {q \in Pairs : d.P[q] # NullTab} |->
            [t \in 1..cfg.T |-> [i \in 0..(d.ntot - 1) |->
               Read(m, TabEntry(d.P[p], "P", p, t), i)]]],
   P_prev |-> [p \in {q \in Pairs : d.P_prev[q] # NullTab} |->
            [t \in 1..cfg.T |-> [i \in 0..(d.ntot - 1) |->
               Read(m, TabEntry(d.P_prev[p], "P_prev", p, t), i)]]],
   V |-> [c \in {q \in Parts : d.V[q] # NullTab} |->
            [cr \in 1..cfg.C |-> [i \in 0..(d.ntot - 1) |->
               Read(m, TabEntry(d.V[c], "V", c, cr), i)]]],
   V_prev |-> [c \in {q \in Parts : d.V_prev[q] # NullTab} |->
            [cr \in 1..cfg.C |-> [i \in 0..(d.ntot - 1) |->
               Read(m, TabEntry(d.V_prev[c], "V_prev", c, cr), i)]]]]

\* copy_internal_data(data) returning bnew, both classes
CopyInternalData(b, bnew) ==
  /\ upd.pc = "idle"
  /\ heap[b].state = "live"
  /\ heap[bnew].state = "free"
  /\ LET hdr == CopyHeader(heap[b].d, bnew)
     IN  /\ heap' = [heap EXCEPT ![bnew] = [state |-> "live", d |-> hdr]]
         /\ tabAlive' = tabAlive \cup {id \in TabIds(bnew, hdr) : id[1] = bnew}
  /\ \E g \in GarbageVals : mem' = CopyCells(mem, b, bnew, g)
  /\ hist' = [Touch(hist) EXCEPT !.pristine = @ \cup {bnew},
                          !.source = [@ EXCEPT ![bnew] = b],
                          !.snap = [@ EXCEPT ![bnew] = Arrays(mem, heap[b].d)]]
  /\ UNCHANGED <<cfg, W, W_prev, f_minus_p, upd, ret>>

\* delete_internal_data(data), both classes
DeleteInternalData(b) ==
  /\ upd.pc = "idle"
  /\ heap[b].state = "live"
  /\ tabAlive' = tabAlive \ TabIds(b, heap[b].d)
  /\ heap' = [heap EXCEPT ![b].state = "deleted"]
  /\ hist' = [Touch(hist) EXCEPT !.pristine = @ \ {b}, !.deleted = @ \cup {b},
                          !.inited = @ \ {b}]
  /\ UNCHANGED <<cfg, mem, W, W_prev, f_minus_p, upd, ret>>

(***************************************************************************)
(* update_P: the per-point updates.  Each returns the memory after the     *)
(* point's update, and whether the update dereferenced a null pointer.     *)
(***************************************************************************)
PiVal == 3

RECURSIVE SumOver(_, _, _)
\* sum of f[k] for k = lo .. hi
SumOver(f, lo, hi) == IF lo > hi THEN 0 ELSE Add(f[lo], SumOver(f, lo + 1, hi))

\* arr[j] of a field / sigma array
ArrAt(arr, j) == IF j \in DOMAIN arr THEN arr[j] ELSE Indet
\* vals[i] + vals[i + o1] + vals[i + o2] + vals[i + o1 + o2] of a field array
Sum4Arr(arr, i, o) ==
  IF o[1] = Indet \/ o[2] = Indet THEN Indet
  ELSE Add(Add(ArrAt(arr, i), ArrAt(arr, i + o[1])),
           Add(ArrAt(arr, i + o[2]), ArrAt(arr, i + o[1] + o[2])))
\* the same sum over a slice of the buffer
Sum4Mem(m, p, i, o) ==
  IF o[1] = Indet \/ o[2] = Indet THEN Indet
  ELSE Add(Add(Read(m, p, i), Read(m, p, i + o[1])),
           Add(Read(m, p, i + o[2]), Read(m, p, i + o[1] + o[2])))

\* the field directions with polarization: cdot[0 .. idot-1]
RECURSIVE PolarizedFrom(_, _)
PolarizedFrom(d, k) ==
  IF k > Len(Components) THEN <<>>
  ELSE (IF d.P[<<Components[k], 0>>] # NullTab THEN <<Components[k]>> ELSE <<>>)
         \o PolarizedFrom(d, k + 1)

\* E8[idot][cmp]: 8 * E at centered point i
E8(cdot, offs, idot, cmp, i) ==
  IF cmp = 1 /\ W[<<cdot[idot], 1>>] = NullArr THEN 0
  ELSE Add(Sum4Arr(W[<<cdot[idot], cmp>>], i, offs[idot]),
           Sum4Arr(W_prev[<<cdot[idot], cmp>>], i, offs[idot]))

\* the contribution of direction idot, part cmp to EdP32 (kind "dif") or
\* EPave64 (kind "sum") of transition t at centered point i
EdotP(m, d, cdot, offs, idot, cmp, t, i, kind) ==
  LET p == TabEntry(d.P[<<cdot[idot], cmp>>], "P", <<cdot[idot], cmp>>, t + 1)
      pp == TabEntry(d.P_prev[<<cdot[idot], cmp>>], "P_prev", <<cdot[idot], cmp>>, t + 1)
      cur == Sum4Mem(m, p, i, offs[idot])
      prev == Sum4Mem(m, pp, i, offs[idot])
  IN  Mul(IF kind = "dif" THEN Sub(cur, prev) ELSE Add(cur, prev),
          E8(cdot, offs, idot, cmp, i))

\* EdP32 / EPave64 of transition t at point i, before the scaling
EdotPAll(m, d, cdot, offs, t, i, kind) ==
  SumOver([idot \in 1..Len(cdot) |->
             Add(EdotP(m, d, cdot, offs, idot, 0, t, i, kind),
                 IF d.P[<<cdot[idot], 1>>] # NullTab
                   THEN EdotP(m, d, cdot, offs, idot, 1, t, i, kind)
                   ELSE 0)],
          1, Len(cdot))

\* Ntmp after "Ntmp = (I - Gamma * dt/2) * N" and "Ntmp = Ntmp + alpha * E * dP"
NtmpAt(m, d, dt, cdot, offs, i) ==
  LET L == cfg.L
      N == PtrAdd(d.N, i * L)
      dt2 == Div(dt, 2)
      gperpdt(t) == Mul(Mul(cfg.gamma[t], PiVal), dt)
      EdP32(t) == Div(EdotPAll(m, d, cdot, offs, t, i, "dif"), Norm(32))
      EPave64(t) == Div(EdotPAll(m, d, cdot, offs, t, i, "sum"), Norm(64))
  IN  [l1 \in 0..(L - 1) |->
         Add(SumOver([l2 \in 0..(L - 1) |->
                        Mul(Sub(IF l1 = l2 THEN 1 ELSE 0, Mul(cfg.Gamma[l1 * L + l2], dt2)),
                            Read(m, N, l2))], 0, L - 1),
             SumOver([t \in 0..(cfg.T - 1) |->
                        Add(Mul(Norm(cfg.alpha[l1 * cfg.T + t]), EdP32(t)),
                            Mul(Mul(Norm(cfg.alpha[l1 * cfg.T + t]), gperpdt(t)), EPave64(t)))],
                     0, cfg.T - 1))]

\* the population update of centered point i (one LOOP_OVER_VOL_OWNED body)
PopPoint(m, d, dt, cdot, offs, i) ==
  LET L == cfg.L
      m1 == WriteAll(m, d.Ntmp, NtmpAt(m, d, dt, cdot, offs, i), 0, L)
      Nnew == [l1 \in 0..(L - 1) |->
                 SumOver([l2 \in 0..(L - 1) |->
                            Mul(Read(m1, d.GammaInv, l1 * L + l2), Read(m1, d.Ntmp, l2))],
                         0, L - 1)]
  IN  [m |-> WriteAll(m1, PtrAdd(d.N, i * L), Nnew, 0, L),
       crash |-> \E k \in 1..Len(cdot) : W[<<cdot[k], 0>>] = NullArr \/ W_prev[<<cdot[k], 0>>] = NullArr]

\* the data[] cells a 4-corner sum over a slice touches
Cells4(p, i, o) ==
  IF p = NullPtr \/ o[1] = Indet \/ o[2] = Indet THEN {NullPtr}
  ELSE {PtrAdd(p, i), PtrAdd(p, i + o[1]), PtrAdd(p, i + o[2]), PtrAdd(p, i + o[1] + o[2])}
CellRange(p, n) == {PtrAdd(p, k) : k \in 0..(n - 1)}

\* the cells the population update of point i reads before writing them
PopReadCellsP(d, cdot, offs, i) ==
  UNION {IF d.P[<<cdot[k], cmp>>] = NullTab THEN {}
         ELSE Cells4(TabEntry(d.P[<<cdot[k], cmp>>], "P", <<cdot[k], cmp>>, t), i, offs[k])
                \cup Cells4(TabEntry(d.P_prev[<<cdot[k], cmp>>], "P_prev", <<cdot[k], cmp>>, t),
                            i, offs[k]) :
           k \in 1..Len(cdot), t \in 1..cfg.T, cmp \in Parts}
PopReadCells(d, cdot, offs, i) ==
  CellRange(PtrAdd(d.N, i * cfg.L), cfg.L)
    \cup CellRange(d.GammaInv, cfg.L * cfg.L)
    \cup PopReadCellsP(d, cdot, offs, i)
\* the cells it writes
PopWriteCells(d, i) ==
  CellRange(d.Ntmp, cfg.L) \cup CellRange(PtrAdd(d.N, i * cfg.L), cfg.L)

\* the level lookup with "int lp = 0, lm = 0" for "int lp = -1, lm = -1"
LevelsAlphaFromZero(t) ==
  LET pos == {l \in 0..(cfg.L - 1) : cfg.alpha[l * cfg.T + t] > 0}
      neg == {l \in 0..(cfg.L - 1) : cfg.alpha[l * cfg.T + t] < 0}
  IN  [lp |-> IF pos = {} THEN 0 ELSE CHOOSE l \in pos : \A x \in pos : x <= l,
       lm |-> IF neg = {} THEN 0 ELSE CHOOSE l \in neg : \A x \in neg : x <= l]

\* "figure out which levels this transition couples" for alpha: lp = l, lm = l
LevelsAlpha(t) ==
  LET pos == {l \in 0..(cfg.L - 1) : cfg.alpha[l * cfg.T + t] > 0}
      neg == {l \in 0..(cfg.L - 1) : cfg.alpha[l * cfg.T + t] < 0}
  IN  [lp |-> IF pos = {} THEN -1 ELSE CHOOSE l \in pos : \A x \in pos : x <= l,
       lm |-> IF neg = {} THEN -1 ELSE CHOOSE l \in neg : \A x \in neg : x <= l]

\* the same loop for beta, which assigns the constant 1: lp = 1, lm = 1
LevelsBeta(cr) ==
  LET pos == {l \in 0..(cfg.L - 1) : cfg.beta[l * cfg.C + cr] > 0}
      neg == {l \in 0..(cfg.L - 1) : cfg.beta[l * cfg.C + cr] < 0}
  IN  [lp |-> IF pos = {} THEN -1 ELSE 1,
       lm |-> IF neg = {} THEN -1 ELSE 1]

\* the polarization update of point i of slice P[c][cmp][t]
PolPoint(m, d, dt, t, lp, lm, pair, i) ==
  LET L == cfg.L
      c == pair[1]
      dir == component_direction(c)
      p == TabEntry(d.P[pair], "P", pair, t + 1)
      pp == TabEntry(d.P_prev[pair], "P_prev", pair, t + 1)
      w == W[pair]
      s == cfg.sigma[<<c, dir>>]
      st == cfg.sigmat[5 * t + dir]
      dt2 == Div(dt, 2)
      omega2pi == Mul(Mul(2, PiVal), cfg.omega[t])
      g2pi == Mul(Mul(cfg.gamma[t], 2), PiVal)
      gperp == Mul(cfg.gamma[t], PiVal)
      dtsqr == Mul(dt, dt)
      omega0dtsqrCorrected == Add(Mul(Mul(omega2pi, omega2pi), dtsqr), Mul(Mul(gperp, gperp), dtsqr))
      gamma1inv == Inv(Add(1, Mul(g2pi, dt2)))
      gamma1 == Sub(1, Mul(g2pi, dt2))
      o == <<cent2yee_offsets(c)[1] * L, cent2yee_offsets(c)[2] * L>>
      Ni == PtrAdd(d.N, i * L)
      dNi == Div(Sub(Sum4Mem(m, Ni, lp, o), Sum4Mem(m, Ni, lm, o)), 4)
      pcur == Read(m, p, i)
      pnew == Mul(gamma1inv,
                  Sub(Sub(Mul(pcur, Sub(2, omega0dtsqrCorrected)), Mul(gamma1, Read(m, pp, i))),
                      Mul(Mul(dtsqr, Mul(Mul(st, ArrAt(s, i)), ArrAt(w, i))), dNi)))
  IN  [m |-> Write(Write(m, p, i, pnew), pp, i, pcur), crash |-> FALSE]

PolReadCellsN(d, lp, lm, pair, i) ==
  LET o == <<cent2yee_offsets(pair[1])[1] * cfg.L, cent2yee_offsets(pair[1])[2] * cfg.L>>
      Ni == PtrAdd(d.N, i * cfg.L)
  IN  Cells4(Ni, lp, o) \cup Cells4(Ni, lm, o)
PolWriteCells(d, t, pair, i) ==
  {PtrAdd(TabEntry(d.P[pair], "P", pair, t + 1), i),
   PtrAdd(TabEntry(d.P_prev[pair], "P_prev", pair, t + 1), i)}

\* where the polarization loops stand next, from (t, pair index k) on: the
\* next slice to sweep, an abort, or the end of update_P
RECURSIVE PolSeek(_, _, _)
PolSeek(d, t, k) ==
  IF t >= cfg.T THEN [kind |-> "done"]
  ELSE IF k = 1 /\ (LevelsAlpha(t).lp < 0 \/ LevelsAlpha(t).lm < 0)
    THEN [kind |-> "abort", msg |-> "invalid alpha array for transition", t |-> t]
  ELSE IF k > Len(PairOrder) THEN PolSeek(d, t + 1, 1)
  ELSE
    LET pair == PairOrder[k]
        c == pair[1]
        cmp == pair[2]
        dir == component_direction(c)
        w == W[pair]
        s == cfg.sigma[<<c, dir>>]
        d1 == cycle_direction(dir, 1)
        w1 == W[<<direction_component(c, d1), cmp>>]
        s1 == IF w1 # NullArr THEN cfg.sigma[<<c, d1>>] ELSE NullArr
        d2 == cycle_direction(dir, 2)
        w2 == W[<<direction_component(c, d2), cmp>>]
        s2 == IF w2 # NullArr THEN cfg.sigma[<<c, d2>>] ELSE NullArr
    IN  IF d.P[pair] = NullTab \/ w = NullArr \/ s = NullArr THEN PolSeek(d, t, k + 1)
        ELSE IF s1 # NullArr \/ s2 # NullArr
          THEN [kind |-> "abort", msg |-> "nondiagonal saturable gain is not yet supported",
                t |-> t]
        ELSE IF Owned(c, cfg.ntot) = {} THEN PolSeek(d, t, k + 1)
        ELSE [kind |-> "work", t |-> t, k |-> k,
              lp |-> LevelsAlpha(t).lp, lm |-> LevelsAlpha(t).lm]

(***************************************************************************)
(* The coherence update (extended class).  The source text of this loop    *)
(* writes v[cmp][i] for the element i of the slice v and sigma[i] for the  *)
(* element i of the slice s declared beside it; the model reads them so.   *)
(***************************************************************************)
\* sign(cmp, k): the sign of the product of two parts of complex numbers
sign(cmp, k) == IF cmp = 1 /\ k = 1 THEN Modulus - 1 ELSE 1
\* conjugate(cmp)
conjugate(cmp) == IF cmp = 0 THEN 1 ELSE 0

AlphaAt(l, t) == IF (l * cfg.T + t) \in DOMAIN cfg.alpha THEN cfg.alpha[l * cfg.T + t] ELSE Indet
BetaAt(l, cr) == IF (l * cfg.C + cr) \in DOMAIN cfg.beta THEN cfg.beta[l * cfg.C + cr] ELSE Indet

\* correspond_radiative_transition(l1, l2, is_successfull)
correspond_radiative_transition(l1, l2) ==
  LET hit == {r \in 0..(cfg.T - 1) : AlphaAt(l1, r) # 0 /\ AlphaAt(l2, r) # 0}
  IN  IF hit = {} THEN [found |-> FALSE, index |-> -1]
      ELSE [found |-> TRUE, index |-> CHOOSE r \in hit : \A x \in hit : r <= x]

\* correspond_nonradiative_transition(l1, l2, is_successfull)
correspond_nonradiative_transition(l1, l2) ==
  LET hit == {n \in 0..(cfg.C - 1) : BetaAt(l1, n) # 0 /\ BetaAt(l2, n) # 0}
  IN  IF hit = {} THEN [found |-> FALSE, index |-> -1]
      ELSE [found |-> TRUE, index |-> CHOOSE n \in hit : \A x \in hit : n <= x]

\* one term of the commutator for the level pair (l1, l2): the value added
\* to drho[conjugate(cmp)] (before its sign), or a null dereference, or the
\* abort "failed to correspond transition index to level indexes"
CouplingTerm(m, d, dt, pair, tr, l1, l2, i) ==
  LET c == pair[1]
      cmp == pair[2]
      w == W[pair]
      s == cfg.sigma[<<c, component_direction(c)>>]
      st == cfg.sigmat[5 * tr + component_direction(c)]
      nr == correspond_nonradiative_transition(l1, l2)
      r == correspond_radiative_transition(l1, l2)
      dt2 == Div(dt, 2)
      factor == Mul(Mul(st, ArrAt(s, i)), ArrAt(w, i))
      both(cur, prev) == Mul(Mul(Mul(sign(cmp, 1), factor), Add(Read(m, cur, i), Read(m, prev, i))), dt2)
  IN  IF w = NullArr \/ s = NullArr THEN [st |-> "crash", val |-> 0]
      ELSE IF nr.found
        THEN [st |-> "ok",
              val |-> both(TabEntry(d.V[cmp], "V", cmp, nr.index + 1),
                           TabEntry(d.V_prev[cmp], "V_prev", cmp, nr.index + 1))]
      ELSE IF r.found
        THEN IF d.P[pair] = NullTab THEN [st |-> "crash", val |-> 0]
             ELSE [st |-> "ok",
                   val |-> both(TabEntry(d.P[pair], "P", pair, r.index + 1),
                                TabEntry(d.P_prev[pair], "P_prev", pair, r.index + 1))]
      ELSE [st |-> "abort", val |-> 0]

\* the two terms of the commutator at step n = lk * T + transition of the loops
\* over lk and transition, for one (c, cmp)
CouplingAt(m, d, dt, pair, lp, lm, i, n) ==
  LET lk == n \div cfg.T
      tr == n % cfg.T
      is_coupled_p == AlphaAt(lp, tr) # 0
      is_coupled_k == AlphaAt(lk, tr) # 0
      is_coupled_m == AlphaAt(lm, tr) # 0
  IN  [former |-> IF is_coupled_p /\ is_coupled_k
                    THEN CouplingTerm(m, d, dt, pair, tr, lk, lm, i)
                    ELSE [st |-> "ok", val |-> 0],
       latter |-> IF is_coupled_k /\ is_coupled_m
                    THEN CouplingTerm(m, d, dt, pair, tr, lp, lk, i)
                    ELSE [st |-> "ok", val |-> 0]]

\* how a run of loop steps ends and what it leaves: the first step that does
\* not complete ends the call
FirstBad(at) ==
  LET bad == {k \in DOMAIN at : at[k].st # "ok"}
  IN  IF bad = {} THEN 0 ELSE CHOOSE k \in bad : \A x \in bad : k <= x
TermsOf(both) ==
  [st |-> IF both.former.st # "ok" THEN both.former.st ELSE both.latter.st,
   val |-> Sub(both.former.val, both.latter.val)]
SumTerms(at) ==
  [st |-> IF FirstBad(at) = 0 THEN "ok" ELSE at[FirstBad(at)].st,
   val |-> SumOver([k \in DOMAIN at |-> at[k].val], 1, Len(at))]

\* the loops over lk and transition for one (c, cmp): what they add to
\* drho[conjugate(cmp)], and how they end
CouplingLoop(m, d, dt, pair, lp, lm, i) ==
  SumTerms([n \in 1..(cfg.L * cfg.T) |->
              TermsOf(CouplingAt(m, d, dt, pair, lp, lm, i, n - 1))])

\* drho[] as iteration (c, cmp) of the FOR_COMPONENTS(c) DOCMP2 loop leaves it:
\* both entries are assigned by the autoevolution lines, then the coupling
\* terms cp are added to drho[conjugate(cmp)]
DrhoOf(cmp, vi, cr, cp) ==
  [st |-> cp.st,
   drho |-> [x \in Parts |->
               IF x = cmp
                 THEN Neg(Mul(Mul(sign(cmp, 0), cfg.gamma_decoherence[cr]), vi))
                 ELSE Add(Neg(Mul(Mul(sign(cmp, 1), cfg.omega_nonradiative[cr]), vi)),
                          cp.val)]]
DrhoAt(m, d, dt, cr, lp, lm, i, k) ==
  DrhoOf(PairOrder[k][2],
         Read(m, TabEntry(d.V[PairOrder[k][2]], "V", PairOrder[k][2], cr + 1), i),
         cr, CouplingLoop(m, d, dt, PairOrder[k], lp, lm, i))

\* drho[] after the whole FOR_COMPONENTS(c) DOCMP2 loop of point i
LastOrBad(at) == IF FirstBad(at) = 0 THEN at[Len(at)] ELSE at[FirstBad(at)]
DrhoLoop(m, d, dt, cr, lp, lm, i) ==
  LastOrBad([k \in 1..Len(PairOrder) |-> DrhoAt(m, d, dt, cr, lp, lm, i, k)])

\* dst[i] = src[i]
CopyCell(m, dst, src, i) == Write(m, dst, i, Read(m, src, i))
\* p[i] += v
AddCell(m, p, i, v) == Write(m, p, i, Add(Read(m, p, i), v))

\* the four assignments that end the coherence update of point i
CohAssign(m, d, cr, i, r) ==
  LET V0 == TabEntry(d.V[0], "V", 0, cr + 1)
      V1 == TabEntry(d.V[1], "V", 1, cr + 1)
      Vp0 == TabEntry(d.V_prev[0], "V_prev", 0, cr + 1)
      Vp1 == TabEntry(d.V_prev[1], "V_prev", 1, cr + 1)
  IN  IF r.st # "ok" THEN [m |-> m, st |-> r.st]
      ELSE [m |-> AddCell(AddCell(CopyCell(CopyCell(m, Vp0, V0, i), Vp1, V1, i),
                                  V0, i, r.drho[0]),
                          V1, i, r.drho[1]),
            st |-> "ok"]

\* the coherence update of centered point i for crossection cr
CohPoint(m, d, dt, cr, lp, lm, i) ==
  CohAssign(m, d, cr, i, DrhoLoop(m, d, dt, cr, lp, lm, i))

\* the cells of index i of every V, V_prev, P and P_prev slice: a superset of
\* what the coherence update of point i reads
CohReadCells(d, i) ==
  UNION {{PtrAdd(d.V[c].ptrs[k], i) : k \in DOMAIN d.V[c].ptrs}
           \cup {PtrAdd(d.V_prev[c].ptrs[k], i) : k \in DOMAIN d.V_prev[c].ptrs} : c \in Parts}
    \cup UNION {{PtrAdd(d.P[p].ptrs[k], i) : k \in DOMAIN d.P[p].ptrs}
           \cup {PtrAdd(d.P_prev[p].ptrs[k], i) : k \in DOMAIN d.P_prev[p].ptrs} : p \in Pairs}
CohWriteCells(d, cr, i) ==
  UNION {{PtrAdd(TabEntry(d.V[c], "V", c, cr + 1), i),
          PtrAdd(TabEntry(d.V_prev[c], "V_prev", c, cr + 1), i)} : c \in Parts}

\* where the coherence loops stand next, from crossection cr on
RECURSIVE CohSeek(_)
CohSeek(cr) ==
  IF cr >= cfg.C THEN [kind |-> "done"]
  ELSE IF LevelsBeta(cr).lp < 0 \/ LevelsBeta(cr).lm < 0
    THEN [kind |-> "abort", msg |-> "invalid beta array for nonradiative transition",
          t |-> cr]
  ELSE IF OwnedCentered(cfg.ntot) = {} THEN CohSeek(cr + 1)
  ELSE [kind |-> "work", cr |-> cr, lp |-> LevelsBeta(cr).lp, lm |-> LevelsBeta(cr).lm]

(***************************************************************************)
(* update_P as a process: the call starts, then one step per grid point of *)
(* each sweep, in any order of the points of a sweep; the loop headers     *)
(* between two sweeps (level lookup, storage tests, aborts) run with the   *)
(* step that ends the sweep before them.                                   *)
(***************************************************************************)
Crashed == [pc |-> "crashed"]
Running(b, dt, cdot, offs) ==
  [pc |-> "pop", b |-> b, dt |-> dt, cdot |-> cdot, offs |-> offs,
   todo |-> OwnedCentered(cfg.ntot), t |-> 0, k |-> 0, cr |-> 0, lp |-> -1, lm |-> -1]

\* the polarization sweeps, from (t, k) on; the end of them is the return
EnterPol(u, t, k) ==
  LET s == PolSeek(heap[u.b].d, t, k)
  IN  CASE s.kind = "abort" -> Aborted(s.msg, s.t)
        [] s.kind = "done" -> Idle
        [] OTHER -> [u EXCEPT !.pc = "pol", !.t = s.t, !.k = s.k, !.lp = s.lp, !.lm = s.lm,
                              !.todo = Owned(PairOrder[s.k][1], cfg.ntot)]

\* the coherence sweeps (extended class), from crossection cr on
EnterCoh(u, cr) ==
  LET s == CohSeek(cr)
  IN  CASE s.kind = "abort" -> Aborted(s.msg, s.t)
        [] s.kind = "done" -> EnterPol(u, 0, 1)
        [] OTHER -> [u EXCEPT !.pc = "coh", !.cr = s.cr, !.lp = s.lp, !.lm = s.lm,
                              !.todo = OwnedCentered(cfg.ntot)]

\* what follows the population sweep
AfterPop(u) == IF cfg.variant = "linear" THEN EnterPol(u, 0, 1) ELSE EnterCoh(u, 0)

\* the first sweep of update_P: "update N from W and P"
EnterPop(u) == IF u.todo = {} THEN AfterPop(u) ELSE u

\* what follows the sweep that u is in, once its last point is done
AfterSweep(u) ==
  CASE u.pc = "pop" -> AfterPop(u)
    [] u.pc = "coh" -> EnterCoh(u, u.cr + 1)
    [] OTHER -> EnterPol(u, u.t, u.k + 1)

\* the phases that are over when control moves from u to v
PhaseRank(u) ==
  CASE u.pc = "pop" -> 1 [] u.pc = "coh" -> 2 [] u.pc = "pol" -> 3 [] u.pc = "idle" -> 4
    [] u.pc = "aborted" ->
         (IF u.msg = "invalid beta array for nonradiative transition" THEN 2 ELSE 3)
    [] OTHER -> 0
EndedBy(u, v) ==
  {ph \in {"pop", "coh", "pol"} :
     LET r == CASE ph = "pop" -> 1 [] ph = "coh" -> 2 [] OTHER -> 3
     IN  PhaseRank(u) <= r /\ r < PhaseRank(v)}

\* the offsets the stack array o.o1[1..2], o.o2[1..2] may hold: they are
\* never assigned by pick_field_offsets
UninitOffsets == {0, 1}

\* o1[idot], o2[idot] as update_P (linear) computes them
OffsetsLinear(cdot) == [k \in 1..Len(cdot) |-> yee2cent_offsets(cdot[k])]
\* pick_field_offsets: idot stays 0, so every polarized component stores its
\* offsets in o1[0], o2[0]; the other entries keep what the stack held (u)
pick_field_offsets(cdot, u) ==
  [k \in 1..Len(cdot) |-> IF k = 1 THEN yee2cent_offsets(cdot[Len(cdot)]) ELSE <<u, u>>]

(***************************************************************************)
(* update_P run in the order of the source text: every sweep visits its    *)
(* points by increasing index.                                             *)
(***************************************************************************)
RECURSIVE SweepPop(_, _, _, _, _, _)
\* the population sweep from point i on
SweepPop(m, d, dt, cdot, offs, i) ==
  IF i \notin OwnedCentered(cfg.ntot) THEN m
  ELSE SweepPop(PopPoint(m, d, dt, cdot, offs, i).m, d, dt, cdot, offs, i + 1)

RECURSIVE SweepCoh(_, _, _, _, _)
\* the coherence sweep of crossection cr from point i on
SweepCoh(m, d, dt, cr, i) ==
  IF i \notin OwnedCentered(cfg.ntot) THEN m
  ELSE SweepCoh(CohPoint(m, d, dt, cr, LevelsBeta(cr).lp, LevelsBeta(cr).lm, i).m,
                d, dt, cr, i + 1)
RECURSIVE SweepPol(_, _, _, _, _, _)
\* the polarization sweep of slice P[c][cmp][t], pair = (c, cmp), from point i on
SweepPol(m, d, dt, t, pair, i) ==
  IF i >= cfg.ntot THEN m
  ELSE IF i \notin Owned(pair[1], cfg.ntot) THEN SweepPol(m, d, dt, t, pair, i + 1)
  ELSE SweepPol(PolPoint(m, d, dt, t, LevelsAlpha(t).lp, LevelsAlpha(t).lm, pair, i).m,
                d, dt, t, pair, i + 1)

\* the memory the sweep that u is in leaves when it starts on memory m and
\* takes the points in the order of the source text
CanonSweep(m, u) ==
  LET d == heap[u.b].d
  IN  CASE u.pc = "pop" -> SweepPop(m, d, u.dt, u.cdot, u.offs, 0)
        [] u.pc = "coh" -> SweepCoh(m, d, u.dt, u.cr, 0)
        [] OTHER -> SweepPol(m, d, u.dt, u.t, PairOrder[u.k], 0)

\* the ghost record after control moves from u to v; a sweep is over when u
\* has no point left
HistMove(h, u, v) ==
  [h EXCEPT !.ended = EndedBy(u, v), !.returned = (v.pc = "idle"),
            !.pw = IF EndedBy(u, v) = {} THEN @ ELSE {},
            !.canon = IF u.todo = {} THEN CanonSweep(@, u) ELSE @,
            !.swept = (u.todo = {})]

HistCall(b) ==
  [Touch(hist) EXCEPT !.pristine = @ \ {b}, !.inited = @ \ {b}, !.calls = @ + 1, !.returned = FALSE, !.ended = {},
               !.m0 = mem, !.wN = {}, !.wNcells = {}, !.wV = {}, !.wP = {}, !.pw = {},
               !.popStale = FALSE, !.polUnwritten = FALSE, !.polBad = FALSE,
               !.cross = FALSE, !.canon = mem, !.swept = FALSE]

\* update_P(W, W_prev, dt, gv, P_internal_data) is called
UpdatePStartAt(b, dt) ==
  /\ upd.pc = "idle"
  /\ Initialised(b)
  /\ hist.calls < MaxCalls
  /\ LET cdot == PolarizedFrom(heap[b].d, 1)
     IN  IF Len(cdot) > 3
           THEN /\ upd' = Aborted("bug in meep: too many polarization components", -1)
                /\ hist' = [HistCall(b) EXCEPT !.run = Idle]
           ELSE \E u \in UninitOffsets :
                  LET offs == IF cfg.variant = "linear" THEN OffsetsLinear(cdot)
                              ELSE pick_field_offsets(cdot, u)
                      v == EnterPop(Running(b, dt, cdot, offs))
                  IN  /\ upd' = v
                      /\ hist' = HistMove([HistCall(b) EXCEPT
                                             !.run = Running(b, dt, cdot, offs)],
                                          Running(b, dt, cdot, offs), v)
  /\ UNCHANGED <<cfg, heap, mem, tabAlive, W, W_prev, f_minus_p, ret>>

\* update_P called with the timestep of the simulation
UpdatePStart(b) == UpdatePStartAt(b, cfg.dt)

\* a step that ends in a null dereference or leaves memory m behind
StepTo(r, u, h) ==
  IF r.st = "crash" THEN /\ upd' = Crashed
                         /\ hist' = h
                         /\ mem' = mem
  ELSE IF r.st = "abort"
    THEN /\ upd' = Aborted("failed to correspond transition index to level indexes", -1)
         /\ hist' = h
         /\ mem' = mem
  ELSE LET v == IF u.todo = {} THEN AfterSweep(u) ELSE u
       IN  /\ mem' = r.m
           /\ upd' = v
           /\ hist' = HistMove(h, u, v)

Crossed(reads, i) == \E w \in hist.pw : w[2] # i /\ w[1] \in reads

\* the population update of one owned centered point
PopStep(i) ==
  /\ upd.pc = "pop"
  /\ i \in upd.todo
  /\ LET d == heap[upd.b].d
         r == PopPoint(mem, d, upd.dt, upd.cdot, upd.offs, i)
         h == [hist EXCEPT !.wN = @ \cup {i},
                           !.wNcells = @ \cup CellRange(PtrAdd(d.N, i * cfg.L), cfg.L),
                           !.pw = @ \cup {<<c, i>> : c \in PopWriteCells(d, i)},
                           !.popStale = @ \/ (PopReadCellsP(d, upd.cdot, upd.offs, i) \cap hist.wP # {}),
                           !.cross = @ \/ Crossed(PopReadCells(d, upd.cdot, upd.offs, i), i)]
     IN  StepTo([m |-> r.m, st |-> IF r.crash THEN "crash" ELSE "ok"],
                [upd EXCEPT !.todo = @ \ {i}], h)
  /\ UNCHANGED <<cfg, heap, tabAlive, W, W_prev, f_minus_p, ret>>

\* the coherence update of one owned centered point (extended class)
CohStep(i) ==
  /\ upd.pc = "coh"
  /\ i \in upd.todo
  /\ LET d == heap[upd.b].d
         r == CohPoint(mem, d, upd.dt, upd.cr, upd.lp, upd.lm, i)
         h == [hist EXCEPT !.wV = @ \cup {<<upd.cr, i>>},
                           !.pw = @ \cup {<<c, i>> : c \in CohWriteCells(d, upd.cr, i)},
                           !.cross = @ \/ Crossed(CohReadCells(d, i), i)]
     IN  StepTo(r, [upd EXCEPT !.todo = @ \ {i}], h)
  /\ UNCHANGED <<cfg, heap, tabAlive, W, W_prev, f_minus_p, ret>>

\* the centered points whose N cells are among `cells`
PointsOfN(d, cells) ==
  {j \in 0..(cfg.ntot - 1) : CellRange(PtrAdd(d.N, j * cfg.L), cfg.L) \cap cells # {}}

\* the polarization update of one owned point of the slice in hand
PolStep(i) ==
  /\ upd.pc = "pol"
  /\ i \in upd.todo
  /\ LET d == heap[upd.b].d
         pair == PairOrder[upd.k]
         r == PolPoint(mem, d, upd.dt, upd.t, upd.lp, upd.lm, pair, i)
         nread == PolReadCellsN(d, upd.lp, upd.lm, pair, i)
         h == [hist EXCEPT !.wP = @ \cup PolWriteCells(d, upd.t, pair, i),
                           !.pw = @ \cup {<<c, i>> : c \in PolWriteCells(d, upd.t, pair, i)},
                           !.polUnwritten = @ \/ ~(nread \subseteq hist.wNcells),
                           !.polBad = @ \/ (PointsOfN(d, nread \ hist.wNcells)
                                              \cap OwnedCentered(cfg.ntot) # {}),
                           !.cross = @ \/ Crossed(nread \cup PolWriteCells(d, upd.t, pair, i), i)]
     IN  StepTo([m |-> r.m, st |-> "ok"], [upd EXCEPT !.todo = @ \ {i}], h)
  /\ UNCHANGED <<cfg, heap, tabAlive, W, W_prev, f_minus_p, ret>>

(***************************************************************************)
(* subtract_P and the not-owned queries.                                   *)
(***************************************************************************)
MaxSubs == 2

\* the loop body with "i < ntot - 1" for "i < ntot"
SubtractTShort(f, m, d, ft, t) ==
  [p \in DOMAIN f |->
     LET ecs == {ec \in ft_components(ft) :
                   field_type_component(ft, ec) = p[1] /\ d.P[<<ec, p[2]>>] # NullTab}
     IN  IF ecs = {} \/ f[p] = NullArr THEN f[p]
         ELSE LET ec == CHOOSE e \in ecs : TRUE
                  slice == TabEntry(d.P[<<ec, p[2]>>], "P", <<ec, p[2]>>, t + 1)
              IN  [i \in DOMAIN f[p] |->
                     IF i < d.ntot - 1 THEN Sub(f[p][i], Read(m, slice, i)) ELSE f[p][i]]]

\* the body of the loop over t of subtract_P, for transition t
SubtractT(f, m, d, ft, t) ==
  [p \in DOMAIN f |->
     LET ecs == {ec \in ft_components(ft) :
                   field_type_component(ft, ec) = p[1] /\ d.P[<<ec, p[2]>>] # NullTab}
     IN  IF ecs = {} \/ f[p] = NullArr THEN f[p]
         ELSE LET ec == CHOOSE e \in ecs : TRUE
                  slice == TabEntry(d.P[<<ec, p[2]>>], "P", <<ec, p[2]>>, t + 1)
              IN  [i \in DOMAIN f[p] |->
                     IF i < d.ntot THEN Sub(f[p][i], Read(m, slice, i)) ELSE f[p][i]]]

\* subtract_P(ft, f_minus_p, P_internal_data): the field arrays after the call,
\* from transition t on
RECURSIVE subtract_P(_, _, _, _, _)
subtract_P(f, m, d, ft, t) ==
  IF t >= cfg.T THEN f ELSE subtract_P(SubtractT(f, m, d, ft, t), m, d, ft, t + 1)

SubtractP(b, ft) ==
  /\ upd.pc = "idle"
  /\ heap[b].state = "live"
  /\ hist.subs < MaxSubs
  /\ f_minus_p' = subtract_P(f_minus_p, mem, heap[b].d, ft, 0)
  /\ hist' = [hist EXCEPT !.ended = {}, !.subs = @ + 1,
                !.sub = IF hist.sub.n > 0 /\ hist.sub.b = b /\ hist.sub.ft = ft
                          THEN [@ EXCEPT !.n = @ + 1]
                          ELSE [n |-> 1, b |-> b, ft |-> ft, f0 |-> f_minus_p,
                                mem0 |-> mem, heap0 |-> heap]]
  /\ UNCHANGED <<cfg, heap, mem, tabAlive, W, W_prev, upd, ret>>

\* the query returning the start of the slice, without "+ n"
cinternal_notowned_ptr_start(inotowned, c, cmp, n, data) ==
  IF data = 0 \/ heap[data].d.P[<<c, cmp>>] = NullTab \/ inotowned < 0 \/ inotowned >= cfg.T
    THEN NullPtr
    ELSE TabEntry(heap[data].d.P[<<c, cmp>>], "P", <<c, cmp>>, inotowned + 1)

\* cinternal_notowned_ptr(inotowned, c, cmp, n, P_internal_data); data = 0 is the
\* null buffer
cinternal_notowned_ptr(inotowned, c, cmp, n, data) ==
  IF data = 0 \/ heap[data].d.P[<<c, cmp>>] = NullTab \/ inotowned < 0 \/ inotowned >= cfg.T
    THEN NullPtr
    ELSE PtrAdd(TabEntry(heap[data].d.P[<<c, cmp>>], "P", <<c, cmp>>, inotowned + 1), n)

\* num_cinternal_notowned_needed(c, P_internal_data)
num_cinternal_notowned_needed(c, data) ==
  IF heap[data].d.P[<<c, 0>>] # NullTab THEN cfg.T ELSE 0

NoRet == [fn |-> "none"]
\* the arguments the queries are called with
QueryComps == {"Ex", "Ey"}
QueryElems == {0, 1}

CinternalNotownedPtr(data, inotowned, c, cmp, n) ==
  /\ upd.pc = "idle"
  /\ IF data = 0 THEN TRUE ELSE heap[data].state = "live"
  /\ ret' = [fn |-> "cinternal_notowned_ptr", data |-> data, inotowned |-> inotowned,
             c |-> c, cmp |-> cmp, n |-> n,
             val |-> cinternal_notowned_ptr(inotowned, c, cmp, n, data)]
  /\ hist' = Touch(hist)
  /\ UNCHANGED <<cfg, heap, mem, tabAlive, W, W_prev, f_minus_p, upd>>

NumCinternalNotownedNeeded(c, data) ==
  /\ upd.pc = "idle"
  /\ heap[data].state = "live"
  /\ ret' = [fn |-> "num_cinternal_notowned_needed", data |-> data, c |-> c,
             val |-> num_cinternal_notowned_needed(c, data)]
  /\ hist' = Touch(hist)
  /\ UNCHANGED <<cfg, heap, mem, tabAlive, W, W_prev, f_minus_p, upd>>

(***************************************************************************)
(* Configurations: the susceptibility object (L, T, C, Gamma, N0, alpha,   *)
(* beta, omega, gamma, sigmat, sigma, ...), the grid and the set of pairs   *)
(* that need polarization storage.                                         *)
(***************************************************************************)
\* level l decays into level l - 1 at rate g: dN/dt = -Gamma N
GammaOf(L, g) ==
  [k \in 0..(L * L - 1) |->
     LET i == k \div L
         j == k % L
     IN  IF j = 0 THEN 0
         ELSE IF i = j THEN g
         ELSE IF i = j - 1 THEN Norm(-g)
         ELSE 0]

\* column t couples upper level t % L (positive) to lower level (t + 1) % L
AlphaStd(L, T) ==
  [k \in 0..(L * T - 1) |->
     LET l == k \div T
         t == k % T
     IN  IF l = t % L THEN 1 ELSE IF l = (t + 1) % L THEN -1 ELSE 0]

MkCfg(variant, L, T, C, ntot, needs, alpha, beta, g, offdiag, dt) ==
  [variant |-> variant, dt |-> dt, wp |-> needs, L |-> L, T |-> T, C |-> C, ntot |-> ntot, needsP |-> needs,
   alpha |-> alpha, beta |-> beta,
   Gamma |-> GammaOf(L, g),
   N0 |-> [l \in 0..(L - 1) |-> Norm(l + 1)],
   omega |-> [t \in 0..(T - 1) |-> Norm(t + 1)],
   gamma |-> [t \in 0..(T - 1) |-> 1],
   sigmat |-> [k \in 0..(5 * T - 1) |-> Norm((k % 2) + 1)],
   gamma_decoherence |-> [cr \in 0..(C - 1) |-> 1],
   omega_nonradiative |-> [cr \in 0..(C - 1) |-> 2],
   sigma |-> [cd \in CompSet \X (0..2) |->
                IF (cd[2] = component_direction(cd[1]) /\ \E cmp \in Parts : <<cd[1], cmp>> \in needs)
                   \/ cd \in offdiag
                  THEN [i \in 0..(ntot - 1) |-> 2]
                  ELSE NullArr]]

\* the sets of pairs needing polarization storage that the model draws from
NeedChoices ==
  { {},
    {<<"Ex", 0>>},
    {<<"Ex", 0>>, <<"Ex", 1>>},
    {<<"Ex", 0>>, <<"Ey", 0>>},
    {<<"Ex", 0>>, <<"Ez", 0>>, <<"Hx", 0>>, <<"Hz", 0>>} }

\* (L, T, C) of the linear and of the extended class
ShapesLinear == {<<1, 1, 0>>, <<2, 1, 0>>, <<2, 2, 0>>}
ShapesExtended == {<<2, 1, 0>>, <<2, 1, 1>>, <<3, 2, 1>>}

LifeConfigs ==
  {MkCfg("linear", s[1], s[2], 0, n, nd, AlphaStd(s[1], s[2]), <<>>, 1, {}, 1) :
     s \in ShapesLinear, n \in 1..MaxNtot, nd \in NeedChoices}
  \cup
  {MkCfg("extended", s[1], s[2], s[3], n, nd, AlphaStd(s[1], s[2]),
         AlphaStd(s[1], s[3]), 1, {}, 1) :
     s \in ShapesExtended, n \in 1..MaxNtot, nd \in NeedChoices}

\* the field arrays handed to update_P: W[c][cmp] exists for the pairs in wp
FieldOf(wp, ntot, a, b) ==
  [p \in Pairs |-> IF p \in wp THEN [i \in 0..(ntot - 1) |-> Norm(a * i + b + p[2])] ELSE NullArr]
\* the flux arrays handed to subtract_P: those of the pairs in fp exist
FluxOf(fp, ntot) ==
  [p \in FluxComps \X Parts |->
     IF p \in fp THEN [i \in 0..(ntot - 1) |-> Norm(i + 3)] ELSE NullArr]
FluxPairs(np) == {<<field_type_component(IF is_electric(p[1]) THEN "E_stuff" ELSE "H_stuff", p[1]), p[2]>> : p \in np}

HistInit ==
  [pristine |-> {}, deleted |-> {}, inited |-> {},
   source |-> [b \in BufIds |-> 0], snap |-> [b \in BufIds |-> <<>>],
   calls |-> 0, returned |-> FALSE, ended |-> {}, m0 |-> <<>>,
   wN |-> {}, wNcells |-> {}, wV |-> {}, wP |-> {}, pw |-> {},
   popStale |-> FALSE, polUnwritten |-> FALSE, polBad |-> FALSE, cross |-> FALSE,
   canon |-> <<>>, swept |-> FALSE, run |-> Idle, subs |-> 0, sub |-> SubNone]

InitWith(configs) ==
  /\ cfg \in configs
  /\ heap = [b \in BufIds |-> [state |-> "free", d |-> ZeroHeader(0)]]
  /\ mem = [b \in BufIds |-> <<>>]
  /\ tabAlive = {}
  /\ W = FieldOf(cfg.wp, cfg.ntot, 1, 1)
  /\ W_prev = FieldOf(cfg.wp, cfg.ntot, 2, 0)
  /\ f_minus_p = FluxOf(FluxPairs(cfg.needsP) \cup {<<"Dy", 0>>}, cfg.ntot)
  /\ upd = Idle
  /\ ret = NoRet
  /\ hist = HistInit

\* a flat array from the list of its elements
Arr(seq) == [k \in 0..(Len(seq) - 1) |-> seq[k + 1]]
\* field arrays and diagonal sigma for every component and part
AllFields(c) ==
  [c EXCEPT !.wp = Pairs,
            !.sigma = [cd \in CompSet \X (0..2) |->
                         IF cd[2] = component_direction(cd[1])
                           THEN [i \in 0..(c.ntot - 1) |-> 2]
                           ELSE NullArr]]

\* update_P on one buffer, over valid and invalid transition tables
UpdConfigs ==
  {MkCfg("linear", 2, 1, 0, MaxNtot, {<<"Ex", 0>>}, AlphaStd(2, 1), <<>>, 1, {}, 1),
   MkCfg("linear", 2, 2, 0, MaxNtot, {<<"Ex", 0>>, <<"Ex", 1>>}, AlphaStd(2, 2), <<>>, 1, {}, 2),
   MkCfg("linear", 2, 2, 0, 2, {<<"Ex", 0>>}, Arr(<<1, 0, -1, 0>>), <<>>, 1, {}, 1),
   MkCfg("linear", 2, 2, 0, 2, {<<"Ex", 0>>}, Arr(<<1, 0, 0, 0>>), <<>>, 1, {}, 1),
   MkCfg("linear", 2, 1, 0, 1, {<<"Ex", 0>>}, Arr(<<0, 0>>), <<>>, 1, {}, 1),
   MkCfg("linear", 3, 1, 0, 2, {<<"Ez", 0>>}, Arr(<<1, 1, -1>>), <<>>, 1, {}, 1),
   MkCfg("linear", 3, 1, 0, 2, {<<"Ez", 0>>}, Arr(<<1, -1, -1>>), <<>>, 1, {}, 1),
   MkCfg("linear", 2, 2, 0, 2, {<<"Ex", 0>>, <<"Ez", 0>>, <<"Hx", 0>>, <<"Hz", 0>>},
         Arr(<<1, 0, -1, 0>>), <<>>, 1, {}, 1),
   MkCfg("linear", 2, 2, 0, 2, {<<"Ex", 0>>, <<"Ey", 0>>}, Arr(<<1, 0, -1, 0>>), <<>>, 1,
         {<<"Ex", 1>>}, 1),
   MkCfg("extended", 3, 1, 1, MaxNtot, {<<"Ex", 0>>}, Arr(<<1, 0, -1>>), Arr(<<1, -1, 0>>),
         1, {}, 1),
   MkCfg("extended", 3, 1, 1, 2, {<<"Ez", 0>>}, Arr(<<1, 0, -1>>), Arr(<<1, 1, -1>>),
         1, {}, 1),
   MkCfg("extended", 2, 1, 1, 2, {<<"Ex", 0>>}, AlphaStd(2, 1), AlphaStd(2, 1), 1, {}, 1),
   AllFields(MkCfg("extended", 2, 1, 1, 2, {<<"Ex", 0>>}, AlphaStd(2, 1), AlphaStd(2, 1),
                   1, {}, 1)),
   MkCfg("extended", 2, 2, 1, 2, {<<"Ex", 0>>}, Arr(<<1, 0, -1, 0>>), Arr(<<0, 0>>), 1, {}, 1),
   MkCfg("extended", 2, 2, 0, 2, {<<"Ex", 0>>}, Arr(<<1, 0, -1, 0>>), <<>>, 1, {}, 1),
   MkCfg("extended", 2, 1, 0, MaxNtot, {<<"Ex", 0>>, <<"Ez", 0>>}, AlphaStd(2, 1), <<>>,
         1, {}, 1)}

InitUpd == InitWith(UpdConfigs)

NextUpd ==
  \/ NewInternalData(1)
  \/ InitInternalData(1)
  \/ UpdatePStart(1)
  \/ \E i \in 0..(MaxNtot - 1) : PopStep(i)
  \/ \E i \in 0..(MaxNtot - 1) : CohStep(i)
  \/ \E i \in 0..(MaxNtot - 1) : PolStep(i)

SpecUpd == InitUpd /\ [][NextUpd]_vars

(***************************************************************************)
(* The slices of a buffer, for the layout properties.                      *)
(***************************************************************************)
\* every slice the header d points to: its name, its first cell, its length
SlicesOf(d) ==
  {[name |-> <<"GammaInv">>, p |-> d.GammaInv, len |-> cfg.L * cfg.L],
   [name |-> <<"Ntmp">>, p |-> d.Ntmp, len |-> cfg.L],
   [name |-> <<"N">>, p |-> d.N, len |-> d.ntot * cfg.L]}
  \cup {[name |-> <<"P", q, t>>, p |-> d.P[q].ptrs[t], len |-> d.ntot] :
          q \in {x \in Pairs : d.P[x] # NullTab}, t \in 1..cfg.T}
  \cup {[name |-> <<"P_prev", q, t>>, p |-> d.P_prev[q].ptrs[t], len |-> d.ntot] :
          q \in {x \in Pairs : d.P_prev[x] # NullTab}, t \in 1..cfg.T}
  \cup {[name |-> <<"V", c, cr>>, p |-> d.V[c].ptrs[cr], len |-> d.ntot] :
          c \in {x \in Parts : d.V[x] # NullTab}, cr \in 1..cfg.C}
  \cup {[name |-> <<"V_prev", c, cr>>, p |-> d.V_prev[c].ptrs[cr], len |-> d.ntot] :
          c \in {x \in Parts : d.V_prev[x] # NullTab}, cr \in 1..cfg.C}
SliceCells(sl) == {sl.p.off + k : k \in 0..(sl.len - 1)}
\* the names of the slices the layout is specified to have
SliceNames ==
  {<<"GammaInv">>, <<"Ntmp">>, <<"N">>}
  \cup {<<kind, q, t>> : kind \in {"P", "P_prev"}, q \in cfg.needsP, t \in 1..cfg.T}
  \cup (IF cfg.variant = "linear" THEN {}
        ELSE {<<kind, c, cr>> : kind \in {"V", "V_prev"}, c \in Parts, cr \in 1..cfg.C})
SlicesInside(b) ==
  \A sl \in SlicesOf(heap[b].d) :
    sl.p.buf = b /\ SliceCells(sl) \subseteq 0..(heap[b].d.sz_data - 1)
SlicesDisjoint(b) ==
  \A s1, s2 \in SlicesOf(heap[b].d) :
    s1.name # s2.name => SliceCells(s1) \cap SliceCells(s2) = {}
SlicesCover(b) ==
  UNION {SliceCells(sl) : sl \in SlicesOf(heap[b].d)} = 0..(heap[b].d.sz_data - 1)

\* C7: linear variant: the data region has exactly
\* L*L + 2*ntot*T*k + (ntot+1)*L elements, k the number of (component, part)
\* pairs needing polarization; init_internal_data slices it into GammaInv
\* (L*L), a P and a P_prev slice of ntot elements per needed (component, part,
\* transition), Ntmp (L) and N (ntot*L), pairwise disjoint, inside the region
\* and covering it exactly; sz_data keeps that value whatever is called on the
\* buffer afterwards (init_internal_data, update_P, subtract_P).
C7_LinearLayoutExact ==
  cfg.variant = "linear" =>
    \A b \in BufIds :
      /\ heap[b].state # "free" =>
           heap[b].d.sz_data = cfg.L * cfg.L
                                 + 2 * cfg.ntot * cfg.T * Cardinality(cfg.needsP)
                                 + (cfg.ntot + 1) * cfg.L
      /\ Initialised(b) =>
           /\ {sl.name : sl \in SlicesOf(heap[b].d)} = SliceNames
           /\ SlicesInside(b)
           /\ SlicesDisjoint(b)
           /\ SlicesCover(b)
\* an initialised linear buffer with several polarization slices, after an
\* update_P call has returned and subtract_P has been called
C7_Witness ==
  /\ cfg.variant = "linear"
  /\ Cardinality(cfg.needsP) >= 2 /\ cfg.T >= 2
  /\ \E b \in BufIds : Initialised(b)
  /\ hist.returned /\ hist.subs > 0

\* C8: extended variant: every slice init_internal_data and copy_internal_data
\* assign lies inside the buffer whose size new_internal_data computed, and no
\* two slices overlap.
C8_ExtendedSlicesInside ==
  cfg.variant = "extended" =>
    \A b \in BufIds : Initialised(b) => SlicesInside(b) /\ SlicesDisjoint(b)

\* C1: a clone's N, P, P_prev, V and V_prev values equal the source's at the
\* moment of the call, for as long as nothing is called on the clone, also
\* after delete_internal_data on the source.
C1_CloneEqualsSource ==
  \A b \in hist.pristine : Arrays(mem, heap[b].d) = hist.snap[b]

\* C2: every sub-array pointer of a clone refers to a location inside the
\* clone's own buffer, at the offset the source's pointer has in the source's
\* buffer, never into the source's buffer.
C2_ClonePointersOwn ==
  \A b \in hist.pristine :
    Initialised(b) =>
      /\ SlicesInside(b)
      /\ \A sl \in SlicesOf(heap[b].d) :
           \E so \in SlicesOf(heap[hist.source[b]].d) :
             so.name = sl.name /\ so.p.off = sl.p.off

(***************************************************************************)
(* Properties of update_P.                                                 *)
(***************************************************************************)
ZeroCol(t) == \A l \in 0..(cfg.L - 1) : cfg.alpha[l * cfg.T + t] = 0
InvalidCol(t) ==
  \/ ~\E l \in 0..(cfg.L - 1) : cfg.alpha[l * cfg.T + t] > 0
  \/ ~\E l \in 0..(cfg.L - 1) : cfg.alpha[l * cfg.T + t] < 0
FirstInvalid ==
  CHOOSE t \in 0..(cfg.T - 1) : InvalidCol(t) /\ \A x \in 0..(t - 1) : ~InvalidCol(x)
FatalMessages ==
  {"invalid alpha array for transition", "invalid beta array for nonradiative transition",
   "nondiagonal saturable gain is not yet supported",
   "bug in meep: too many polarization components",
   "failed to correspond transition index to level indexes"}

\* C4 (as stated): with an all-zero column in alpha, every call of update_P ends
\* in the invalid-alpha abort for that column.
C4_AbortForZeroColumn ==
  ((\E t \in 0..(cfg.T - 1) : ZeroCol(t)) /\ hist.calls > 0
     /\ upd.pc \in {"aborted", "crashed"})
    => (upd.pc = "aborted" /\ upd.msg = "invalid alpha array for transition"
          /\ ZeroCol(upd.t))

\* C4 (amended): with an all-zero column in alpha, no call of update_P returns
\* normally; the polarization sweeps never reach the first column lacking a
\* positive or a negative entry, the invalid-alpha abort is the one for that
\* column, and a call that ends otherwise ends in another fatal condition.
C4_ZeroColumnNeverReturns ==
  (\E t \in 0..(cfg.T - 1) : ZeroCol(t)) =>
    /\ ~hist.returned
    /\ hist.calls > 0 => upd.pc # "idle"
    /\ upd.pc = "pol" => upd.t < FirstInvalid
    /\ (upd.pc = "aborted" /\ hist.calls > 0) =>
         /\ upd.msg \in FatalMessages
         /\ upd.msg = "invalid alpha array for transition" => upd.t = FirstInvalid
\* the abort for the zero column 1, after the polarization sweep of column 0
C4_Witness ==
  /\ cfg.T = 2 /\ ZeroCol(1) /\ ~InvalidCol(0)
  /\ upd.pc = "aborted" /\ upd.msg = "invalid alpha array for transition" /\ upd.t = 1
  /\ hist.wP # {}

\* C5: update_P accepts a column of alpha (extended: and of beta) only if it
\* has exactly one positive and exactly one negative entry.
C5_ExactlyOneEach ==
  hist.returned =>
    /\ \A t \in 0..(cfg.T - 1) :
         /\ Cardinality({l \in 0..(cfg.L - 1) : cfg.alpha[l * cfg.T + t] > 0}) = 1
         /\ Cardinality({l \in 0..(cfg.L - 1) : cfg.alpha[l * cfg.T + t] < 0}) = 1
    /\ \A cr \in 0..(cfg.C - 1) :
         /\ Cardinality({l \in 0..(cfg.L - 1) : cfg.beta[l * cfg.C + cr] > 0}) = 1
         /\ Cardinality({l \in 0..(cfg.L - 1) : cfg.beta[l * cfg.C + cr] < 0}) = 1

\* C9: within a call the population sweep has written N at every owned point
\* before any coherence or polarization update, the coherence sweeps are over
\* before any P is written, the population update reads only P and P_prev
\* values from before the call, and the polarization update reads only N
\* values written in this call.
C9_PhasesInSequence ==
  /\ (upd.pc \in {"coh", "pol"} \/ hist.wV # {} \/ hist.wP # {})
       => hist.wN = OwnedCentered(cfg.ntot)
  /\ hist.wP # {} => hist.wV = (0..(cfg.C - 1)) \X OwnedCentered(cfg.ntot)
  /\ ~hist.popStale
  /\ ~hist.polUnwritten

\* C10 (as stated): no point's update reads what the phase writes at another
\* point, and the buffer after each phase is the same for every order of the
\* points.
C10_SameForEveryOrder ==
  /\ ~hist.cross
  /\ hist.swept => mem = hist.canon


(***************************************************************************)
(* Properties of subtract_P and of the not-owned queries.                  *)
(***************************************************************************)
\* the internal component whose polarization subtract_P(ft) takes from the flux
\* array p of buffer b, if any
SubSource(b, ft, p) ==
  {ec \in ft_components(ft) :
     field_type_component(ft, ec) = p[1] /\ heap[b].d.P[<<ec, p[2]>>] # NullTab}
\* the polarization one call subtracts at index i: the sum over the transitions
SubTotal(b, ec, cmp, i) ==
  SumOver([t \in 0..(cfg.T - 1) |->
             Read(mem, TabEntry(heap[b].d.P[<<ec, cmp>>], "P", <<ec, cmp>>, t + 1), i)],
          0, cfg.T - 1)
Affected(b, ft, p) == SubSource(b, ft, p) # {} /\ hist.sub.f0[p] # NullArr

\* C3: n calls of subtract_P in a row (n = 1, 2) leave the buffer as it was and
\* every affected flux entry at its original value minus n times the
\* polarization one call subtracts, at every index 0..ntot-1; the other flux
\* arrays are unchanged.
C3_SubtractTwice ==
  hist.sub.n >= 1 =>
    /\ mem = hist.sub.mem0
    /\ heap = hist.sub.heap0
    /\ \A p \in DOMAIN f_minus_p :
         IF Affected(hist.sub.b, hist.sub.ft, p)
           THEN \A i \in 0..(heap[hist.sub.b].d.ntot - 1) :
                  f_minus_p[p][i] =
                    Sub(hist.sub.f0[p][i],
                        Mul(hist.sub.n,
                            SubTotal(hist.sub.b, CHOOSE e \in SubSource(hist.sub.b, hist.sub.ft, p) : TRUE,
                                     p[2], i)))
           ELSE f_minus_p[p] = hist.sub.f0[p]
\* two calls in a row that changed a flux entry at the last index, next to a
\* non-null flux array without polarization
C3_Witness ==
  /\ hist.sub.n = 2
  /\ \E p \in DOMAIN f_minus_p :
       /\ Affected(hist.sub.b, hist.sub.ft, p)
       /\ f_minus_p[p][cfg.ntot - 1] # hist.sub.f0[p][cfg.ntot - 1]
  /\ \E p \in DOMAIN f_minus_p :
       ~Affected(hist.sub.b, hist.sub.ft, p) /\ f_minus_p[p] # NullArr

\* the rank of the stored pair (c, cmp) in the order FOR_COMPONENTS(c) DOCMP2
\* lays the slices out
StoredBefore(data, c, cmp) ==
  Cardinality({k \in 1..Len(PairOrder) :
                 /\ heap[data].d.P[PairOrder[k]] # NullTab
                 /\ \E j \in 1..Len(PairOrder) : j > k /\ PairOrder[j] = <<c, cmp>>})

\* C6: cinternal_notowned_ptr returns null for the null buffer, an index outside
\* 0..T-1 or a pair without polarization storage, and otherwise the location
\* of element n of the slice P[c][cmp][index]; num_cinternal_notowned_needed
\* returns T for a component with polarization storage and 0 otherwise.
C6_QueryResults ==
  /\ ret.fn = "cinternal_notowned_ptr" =>
       IF \/ ret.data = 0 \/ ret.inotowned < 0 \/ ret.inotowned >= cfg.T
          \/ heap[ret.data].d.P[<<ret.c, ret.cmp>>] = NullTab
         THEN ret.val = NullPtr
         ELSE ret.val = Ptr(ret.data,
                            cfg.L * cfg.L
                              + 2 * cfg.ntot * (cfg.T * StoredBefore(ret.data, ret.c, ret.cmp)
                                                  + ret.inotowned)
                              + ret.n)
  /\ ret.fn = "num_cinternal_notowned_needed" =>
       ret.val = IF \E cmp \in Parts : heap[ret.data].d.P[<<ret.c, cmp>>] # NullTab
                   THEN cfg.T ELSE 0
\* a query for element 1 of the second transition's slice of a stored pair that
\* is not the first one laid out
C6_Witness ==
  /\ ret.fn = "cinternal_notowned_ptr"
  /\ ret.val # NullPtr
  /\ ret.n = 1 /\ ret.inotowned = 1
  /\ StoredBefore(ret.data, ret.c, ret.cmp) >= 1

\* the lifecycle of the buffers alone, over the layouts of LifeConfigs
InitLayout == InitWith(LifeConfigs)

NextLayout ==
  \/ \E b \in BufIds : NewInternalData(b)
  \/ \E b \in BufIds : InitInternalData(b)
  \/ \E b \in BufIds, bnew \in BufIds : CopyInternalData(b, bnew)
  \/ \E b \in BufIds : DeleteInternalData(b)

SpecLayout == InitLayout /\ [][NextLayout]_vars

\* the whole interface on two buffers
CoreConfigs ==
  {MkCfg("linear", 2, 1, 0, 3, {<<"Ex", 0>>}, AlphaStd(2, 1), <<>>, 1, {}, 1),
   MkCfg("linear", 2, 2, 0, 2, {<<"Ex", 0>>, <<"Ex", 1>>}, AlphaStd(2, 2), <<>>, 1, {}, 2),
   MkCfg("linear", 1, 1, 0, 2, {}, AlphaStd(1, 1), <<>>, 1, {}, 1),
   MkCfg("linear", 2, 1, 0, 2, {<<"Ex", 0>>, <<"Hx", 0>>}, AlphaStd(2, 1), <<>>, 3, {}, 1),
   MkCfg("extended", 2, 1, 1, 2, {<<"Ex", 0>>}, AlphaStd(2, 1), AlphaStd(2, 1), 1, {}, 1)}

Init == InitWith(CoreConfigs)

Next ==
  \/ \E b \in BufIds : NewInternalData(b)
  \/ \E b \in BufIds : InitInternalData(b)
  \/ \E b \in BufIds, bnew \in BufIds : CopyInternalData(b, bnew)
  \/ \E b \in BufIds : DeleteInternalData(b)
  \/ \E b \in BufIds : UpdatePStart(b)
  \/ \E i \in 0..(MaxNtot - 1) : PopStep(i)
  \/ \E i \in 0..(MaxNtot - 1) : CohStep(i)
  \/ \E i \in 0..(MaxNtot - 1) : PolStep(i)
  \/ \E b \in BufIds, ft \in FieldTypes : SubtractP(b, ft)

Spec == Init /\ [][Next]_vars

\* the queries, on the null buffer, on a buffer in every stage of its life and
\* on its clone
QueryConfigs ==
  {c \in LifeConfigs :
     /\ c.ntot = 2 /\ c.L = 2
     /\ c.needsP \in {{}, {<<"Ex", 0>>, <<"Ex", 1>>}, {<<"Ex", 0>>, <<"Ey", 0>>}}}
InitQuery == InitWith(QueryConfigs)
NextQuery ==
  \/ ret = NoRet /\ NewInternalData(1)
  \/ ret = NoRet /\ InitInternalData(1)
  \/ ret = NoRet /\ CopyInternalData(1, 2)
  \/ \E data \in {0} \cup BufIds, inotowned \in (0 - 1)..2, c \in QueryComps,
        cmp \in Parts, n \in QueryElems :
       CinternalNotownedPtr(data, inotowned, c, cmp, n)
  \/ \E c \in QueryComps, data \in BufIds : NumCinternalNotownedNeeded(c, data)
SpecQuery == InitQuery /\ [][NextQuery]_vars

(***************************************************************************)
(* The timestep as an argument: init_internal_data and update_P each take  *)
(* their own dt.                                                           *)
(***************************************************************************)
\* the timesteps the calls are made with
DtChoices == {1, 2}
DtConfigs ==
  {MkCfg("linear", 2, 1, 0, 2, {<<"Ex", 0>>}, AlphaStd(2, 1), <<>>, 1, {}, 1),
   MkCfg("extended", 2, 1, 0, 2, {<<"Ex", 0>>}, AlphaStd(2, 1), <<>>, 1, {}, 1)}
InitDt == InitWith(DtConfigs)
NextDt ==
  \/ NewInternalData(1)
  \/ \E dt \in DtChoices : InitInternalDataAt(1, dt)
  \/ CopyInternalData(1, 2)
  \/ \E b \in BufIds, dt \in DtChoices : UpdatePStartAt(b, dt)
  \/ \E i \in 0..(MaxNtot - 1) : PopStep(i)
  \/ \E i \in 0..(MaxNtot - 1) : PolStep(i)
  \/ \E b \in BufIds, ft \in FieldTypes : SubtractP(b, ft)
SpecDt == InitDt /\ [][NextDt]_vars

\* the product of the GammaInv block of buffer b with I + Gamma * dt / 2
GammaInvTimes(b, dt) ==
  [k \in 0..(cfg.L * cfg.L - 1) |->
     SumOver([j \in 0..(cfg.L - 1) |->
                Mul(Read(mem, heap[b].d.GammaInv, (k \div cfg.L) * cfg.L + j),
                    RelaxMatrix(dt)[j * cfg.L + (k % cfg.L)])],
             0, cfg.L - 1)]
Identity == [k \in 0..(cfg.L * cfg.L - 1) |-> IF k \div cfg.L = k % cfg.L THEN 1 ELSE 0]

\* C11: whenever update_P runs with timestep dt, the GammaInv block of its
\* buffer is the inverse of I + Gamma * dt / 2 for that dt.
C11_GammaInvMatchesDt ==
  upd.pc \in {"pop", "coh", "pol"} => GammaInvTimes(upd.b, upd.dt) = Identity

\* every cell of the arrays a is v
AllCells(a, v) == \A k \in DOMAIN a : a[k] = v
\* every slice of the table family f (P, P_prev, V or V_prev) is zero
AllZero(f) == \A p \in DOMAIN f : \A t \in DOMAIN f[p] : AllCells(f[p][t], 0)

\* C12: a buffer that init_internal_data has just laid out has ntot = the grid's
\* point count, N[i*L + l] = N0[l] at every point, zero P, P_prev, V and
\* V_prev, and pointer tables exactly for the pairs that need polarization.
C12_InitState ==
  \A b \in hist.inited :
    LET d == heap[b].d
        a == Arrays(mem, d)
    IN  /\ d.ntot = cfg.ntot
        /\ \A k \in DOMAIN a.N : a.N[k] = cfg.N0[k % cfg.L]
        /\ \A p \in Pairs : (d.P[p] # NullTab <=> needs_P(p))
                              /\ (d.P_prev[p] # NullTab <=> needs_P(p))
        /\ AllZero(a.P) /\ AllZero(a.P_prev)
        /\ AllZero(a.V) /\ AllZero(a.V_prev)

\* C13: when update_P has ended in a fatal condition, every N, P, P_prev, V
\* and V_prev value of every buffer is what it was when update_P was called.
C13_AbortLeavesBuffer ==
  upd.pc = "aborted" =>
    \A b \in BufIds : Initialised(b) =>
      Arrays(mem, heap[b].d) = Arrays(hist.m0, heap[b].d)

(***************************************************************************)
(* update_P with a field that is zero everywhere.                          *)
(***************************************************************************)
\* W and W_prev are zero at every point of every component that has a field
ZeroField(wp, ntot) ==
  [p \in Pairs |-> IF p \in wp THEN [i \in 0..(ntot - 1) |-> 0] ELSE NullArr]

ZeroConfigs ==
  {MkCfg(v, 2, 1, 0, n, np, AlphaStd(2, 1), <<>>, g, {}, 1) :
     v \in {"linear", "extended"}, n \in 2..MaxNtot,
     np \in {{<<"Ex", 0>>}, {<<"Ex", 0>>, <<"Ey", 0>>}}, g \in {1, 3}}

InitZero ==
  /\ cfg \in ZeroConfigs
  /\ heap = [b \in BufIds |-> [state |-> "free", d |-> ZeroHeader(0)]]
  /\ mem = [b \in BufIds |-> <<>>]
  /\ tabAlive = {}
  /\ W = ZeroField(cfg.wp, cfg.ntot)
  /\ W_prev = ZeroField(cfg.wp, cfg.ntot)
  /\ f_minus_p = FluxOf(FluxPairs(cfg.needsP), cfg.ntot)
  /\ upd = Idle
  /\ ret = NoRet
  /\ hist = HistInit

NextZero ==
  \/ NewInternalData(1)
  \/ InitInternalData(1)
  \/ UpdatePStart(1)
  \/ \E i \in 0..(MaxNtot - 1) : PopStep(i)
  \/ \E i \in 0..(MaxNtot - 1) : PolStep(i)

SpecZero == InitZero /\ [][NextZero]_vars

\* the population vector of point i of the N array n
PopAt(n, i) == [l \in 0..(cfg.L - 1) |-> n[i * cfg.L + l]]

\* C14: with a field that is zero everywhere, after any number of update_P
\* calls on an initialised buffer the population vector is the same at all
\* ntot points and every polarization value is zero.
C14_UniformAtRest ==
  (upd.pc = "idle" /\ Initialised(1)) =>
    LET a == Arrays(mem, heap[1].d)
    IN  /\ \A i \in 0..(cfg.ntot - 1) : PopAt(a.N, i) = PopAt(a.N, 0)
        /\ AllZero(a.P) /\ AllZero(a.P_prev)

\* the levels with a positive (sgn = 1) or negative (sgn = -1) entry in column
\* cr of beta
BetaLevels(cr, sgn) ==
  {l \in 0..(cfg.L - 1) : IF sgn = 1 THEN cfg.beta[l * cfg.C + cr] > 0
                                     ELSE cfg.beta[l * cfg.C + cr] < 0}

\* C15: while the coherence phase works on a non-radiative transition whose
\* beta column has one positive and one negative entry, lp is the level of the
\* positive entry and lm the level of the negative entry.
C15_BetaLevels ==
  (upd.pc = "coh" /\ Cardinality(BetaLevels(upd.cr, 1)) = 1
                  /\ Cardinality(BetaLevels(upd.cr, -1)) = 1) =>
    /\ upd.lp \in BetaLevels(upd.cr, 1)
    /\ upd.lm \in BetaLevels(upd.cr, -1)

\* the level pairs (l1, l2) that the loops over lk and transition look up
\* for the levels lp, lm: (lk, lm) in the former term, (lp, lk) in the latter
Lookups(lp, lm) ==
  {<<lk, lm>> : lk \in {l \in 0..(cfg.L - 1) :
       \E tr \in 0..(cfg.T - 1) : AlphaAt(lp, tr) # 0 /\ AlphaAt(l, tr) # 0}}
  \cup
  {<<lp, lk>> : lk \in {l \in 0..(cfg.L - 1) :
       \E tr \in 0..(cfg.T - 1) : AlphaAt(l, tr) # 0 /\ AlphaAt(lm, tr) # 0}}

\* the upper and the lower level of column k of the table at (alpha or beta)
\* over its n columns: the level of its positive and of its negative entry
Upper(at, n, k) == {l \in 0..(cfg.L - 1) : at[l * n + k] > 0}
Lower(at, n, k) == {l \in 0..(cfg.L - 1) : at[l * n + k] < 0}
\* column k couples exactly the two levels l1 and l2
Couples(at, n, k, l1, l2) ==
  \/ Upper(at, n, k) = {l1} /\ Lower(at, n, k) = {l2}
  \/ Upper(at, n, k) = {l2} /\ Lower(at, n, k) = {l1}

\* C16: for every level pair (l1, l2) the coherence coupling looks up, the
\* index used is that of a transition coupling exactly l1 and l2, from beta
\* when beta has a match and from alpha otherwise; when neither has one both
\* lookups report index -1 and no success.
C16_LookupExact ==
  upd.pc = "coh" =>
    \A pr \in Lookups(upd.lp, upd.lm) :
      LET nr == correspond_nonradiative_transition(pr[1], pr[2])
          r == correspond_radiative_transition(pr[1], pr[2])
      IN  IF nr.found THEN Couples(cfg.beta, cfg.C, nr.index, pr[1], pr[2])
          ELSE IF r.found THEN Couples(cfg.alpha, cfg.T, r.index, pr[1], pr[2])
          ELSE nr.index = -1 /\ r.index = -1

\* the buffer as the population sweep of the linear update_P leaves it, run
\* on the memory m with the directions cdot of the call r
LinearPop(m, r) ==
  SweepPop(m, heap[r.b].d, r.dt, r.cdot, OffsetsLinear(r.cdot), 0)

\* C17: with C = 0 the extended update_P works as the linear one: it uses for
\* the k-th polarized direction the yee-to-centered offsets of that direction,
\* and its population sweep leaves the N, P, P_prev of the linear sweep.
C17_ExtendedAsLinear ==
  (cfg.variant = "extended" /\ cfg.C = 0 /\ upd.pc \in {"pop", "pol"}) =>
    /\ upd.offs = OffsetsLinear(upd.cdot)
    /\ ("pop" \in hist.ended =>
          Arrays(mem, heap[upd.b].d) = Arrays(LinearPop(hist.m0, hist.run), heap[upd.b].d))

\* C18: no phase of update_P dereferences a P, P_prev slice table or a W
\* array that does not exist: the call never ends in a null dereference.
C18_AbsentNeverUsed == upd.pc # "crashed"

=============================================================================
